---- MODULE Spec2Model ----
(***************************************************************************)
(* Write path of FaaSKeeper: the three-phase executors of                  *)
(* functions/aws/operations.py (lock_and_read, commit_and_unlock,          *)
(* distributor_push) running as concurrent workers over the lease          *)
(* protocol of functions/aws/model/system_storage.py.                      *)
(*                                                                         *)
(* Every storage round trip is one atomic step; a worker may be delayed    *)
(* for any time between two round trips.                                   *)
(***************************************************************************)
EXTENDS Integers, Sequences, FiniteSets, TLC

\* ------------------------------------------------------------- bounds
MaxTime == 9            \* the clock of worker 1 runs from 1 to MaxTime

\* One worker per incoming request, running in parallel.
Workers == {1, 2}

\* --------------------------------------------------- program constants
lock_lifetime == 7      \* Storage.lock_lifetime
MaxDrift == 1           \* "clock drift of max 1 second"

Paths == {"/", "/a", "/a/b"}
Operations == {"create_node", "set_data", "delete_node"}
Sessions == {"s1", "s2"}
\* operation names of incoming events; "get_data" is not a write operation
OperationNames == Operations \cup {"deregister_session", "get_data"}
NoField == "none"       \* the event dictionary has no such key
NoLock == 0             \* the row has no timelock attribute
NoCounter == 0          \* increase_system_counter returned None / not drawn

\* pathlib.Path(path).parent.absolute(): the parent of "/" is "/"
Parent(p) == CASE p = "/" -> "/"
               [] p = "/a" -> "/"
               [] p = "/a/b" -> "/a"

\* pathlib.Path(path).name: the name of "/" is the empty string
Name(p) == CASE p = "/" -> ""
             [] p = "/a" -> "a"
             [] p = "/a/b" -> "b"

VARIABLES
  now,       \* wall clock of worker 1, in seconds
  drift,     \* drift[w]: how far worker w's clock is ahead of worker 1's
  store,     \* state table: path -> row
  counter,   \* the system counter row
  queue,     \* events pushed to the distributor queue, in push order
  ex,        \* ex[w]: the executor object worker w is running
  applied,   \* applied[p]: counter of the last create_node, set_data or
             \* delete_node whose write to the row of p was applied
  users,     \* users table: the session ids that have a row
  req        \* req[w]: the event worker w received and what builder returned

vars == <<now, drift, store, counter, queue, ex, applied, users, req>>

\* A row of the state table. node = FALSE: the row holds no committed node
\* (it is absent, or holds a timelock only).
EmptyRow == [node |-> FALSE, timelock |-> NoLock, created |-> 0,
             modified |-> 0, children |-> <<>>]

\* A committed node created at counter c
NodeRow(c, ch) == [node |-> TRUE, timelock |-> NoLock, created |-> c,
                   modified |-> c, children |-> ch]

\* The state table after the first n of create_node /a, create_node /a/b
\* were served on a new store (the root exists from the start).
InitialTree(n) ==
  [p \in Paths |->
     CASE p = "/" -> NodeRow(0, IF n >= 1 THEN <<"a">> ELSE <<>>)
       [] p = "/a" -> IF n >= 1
                      THEN NodeRow(1, IF n >= 2 THEN <<"b">> ELSE <<>>)
                      ELSE EmptyRow
       [] p = "/a/b" -> IF n >= 2 THEN NodeRow(2, <<>>) ELSE EmptyRow]

\* The state table left behind by create_node /a/b and delete_node /a served
\* together on InitialTree(1), when the create held the lease on /a for more
\* than lock_lifetime before its commits and the delete took that lease over:
\* the delete removed /a, the create's commit of /a was lost and its commit
\* of /a/b applied.
OrphanTree ==
  [p \in Paths |->
     CASE p = "/" -> NodeRow(0, <<>>)
       [] p = "/a" -> EmptyRow
       [] p = "/a/b" -> NodeRow(2, <<>>)]

\* The counters of the last writes applied in that run: delete_node /a at 3,
\* create_node /a/b at 2.
OrphanApplied ==
  [p \in Paths |->
     CASE p = "/" -> 0
       [] p = "/a" -> 3
       [] p = "/a/b" -> 2]

\* The executor's attributes (self._timestamp, self._node, ...).
\* lockT / lockP: the operation acquired the target / parent lease and has
\* not yet called unlock_node, commit_node or delete_node on it.
\* cp / cn: what the parent commit and the node commit (or delete) did:
\* "none" (not called), "ok" (applied), "lost" (condition failed).
IdleExecutor == [pc |-> "idle", op |-> "create_node", path |-> "/",
                 ts |-> 0, pts |-> 0,
                 node |-> FALSE, nchildren |-> <<>>,
                 pnode |-> FALSE, pchildren |-> <<>>,
                 ctr |-> NoCounter, res |-> "none",
                 lockT |-> FALSE, lockP |-> FALSE,
                 cp |-> "none", cn |-> "none"]

\* The event dictionaries: which of the keys an operation needs are there.
Events == [timestamp : BOOLEAN,
           path : {"/a", NoField},
           session_id : Sessions \cup {NoField}]

\* No event received yet.
NoRequest == [operation |-> NoField, executor |-> NoField, reply |-> NoField]

\* int(datetime.now().timestamp()) as read by worker w
Clock(w) == now + drift[w]

\* ----------------------------------------------------- system storage

\* lock_node comparing the timelock with the unshifted timestamp
LockConditionNoShift(timelock, ts) ==
  \/ timelock = NoLock
  \/ timelock < ts

\* lock_node without the expiry clause: only a row with no timelock is locked
LockConditionNoExpiry(timelock, ts) ==
  timelock = NoLock

\* ConditionExpression of lock_node: the lock doesn't exist or it's expired
LockCondition(timelock, ts) ==
  \/ timelock = NoLock
  \/ timelock < ts - lock_lifetime

\* The table after lock_node(p, ts) (unchanged when the condition fails)
lock_node(st, p, ts) ==
  IF LockCondition(st[p].timelock, ts)
  THEN [st EXCEPT ![p].timelock = ts]
  ELSE st

\* unlock_node(p, ts): clears timelock iff it still equals ts
unlock_node(st, p, ts) ==
  IF st[p].timelock = ts
  THEN [st EXCEPT ![p].timelock = NoLock]
  ELSE st

\* commit_node returns true iff timelock = ts
CommitCondition(st, p, ts) == st[p].timelock = ts

\* commit_node(node, ts, {CHILDREN})
commit_children(st, p, ts, ch) ==
  IF CommitCondition(st, p, ts)
  THEN [st EXCEPT ![p].children = ch, ![p].timelock = NoLock]
  ELSE st

\* commit_node(node, ts, {MODIFIED})
commit_modified(st, p, ts, c) ==
  IF CommitCondition(st, p, ts)
  THEN [st EXCEPT ![p].modified = c, ![p].timelock = NoLock]
  ELSE st

\* commit_node(node, ts, {CREATED, MODIFIED, CHILDREN}) of a new node
commit_created(st, p, ts, c) ==
  IF CommitCondition(st, p, ts)
  THEN [st EXCEPT ![p] = [node |-> TRUE, timelock |-> NoLock, created |-> c,
                          modified |-> c, children |-> <<>>]]
  ELSE st

\* delete_node(node, ts): removes the row iff timelock = ts
delete_node(st, p, ts) ==
  IF CommitCondition(st, p, ts)
  THEN [st EXCEPT ![p] = EmptyRow]
  ELSE st

\* list.remove(x): drops the first occurrence of x
RECURSIVE Remove(_, _)
Remove(s, x) ==
  IF s = <<>> THEN <<>>
  ELSE IF Head(s) = x THEN Tail(s)
  ELSE <<Head(s)>> \o Remove(Tail(s), x)

InSeq(s, x) == \E i \in 1..Len(s) : s[i] = x

\* ------------------------------------------------------------- Init

Init ==
  /\ now = 1
  /\ drift \in {d \in [Workers -> 0..MaxDrift] : d[1] = 0}
  /\ \E n \in 0..2 : store = InitialTree(n) /\ counter = n
  /\ applied = [p \in Paths |-> store[p].modified]
  /\ queue = <<>>
  /\ ex = [w \in Workers |-> IdleExecutor]
  /\ users = Sessions
  /\ req = [w \in Workers |-> NoRequest]

\* ------------------------------------------------------------ actions

\* Time passes.
Tick ==
  /\ now < MaxTime
  /\ now' = now + 1
  /\ UNCHANGED <<drift, store, counter, queue, ex, applied, users, req>>

Finished(w) == ex[w].pc \in {"done", "raised"}

\* builder(...) constructs the executor of a request and the caller enters
\* lock_and_read.
Start(w, o, p) ==
  /\ ex[w].pc = "idle"
  /\ ex' = [ex EXCEPT ![w] = [IdleExecutor EXCEPT
                                !.pc = "lock", !.op = o, !.path = p]]
  /\ UNCHANGED <<now, drift, users, req, store, counter, queue, applied>>

\* One iteration of the loop that locks the target path: on failure the
\* worker sleeps and retries, on success it holds the node read with the lock.
LockTarget(w, o) ==
  /\ ex[w].pc = "lock"
  /\ ex[w].op = o
  /\ LET p == ex[w].path
         t == Clock(w)
     IN IF LockCondition(store[p].timelock, t)
        THEN /\ store' = lock_node(store, p, t)
             /\ ex' = [ex EXCEPT ![w].pc = "locked", ![w].ts = t,
                                 ![w].lockT = TRUE,
                                 ![w].node = store[p].node,
                                 ![w].nchildren = store[p].children]
        ELSE \* sleep(2) and retry: self._timestamp is read again
             /\ UNCHANGED <<store, ex>>
  /\ UNCHANGED <<now, drift, users, req, counter, queue, applied>>

\* One iteration of the loop that locks the parent path.
LockParent(w, o) ==
  /\ ex[w].pc = "locked"
  /\ ex[w].op = o
  /\ LET p == Parent(ex[w].path)
         t == Clock(w)
     IN IF LockCondition(store[p].timelock, t)
        THEN /\ store' = lock_node(store, p, t)
             /\ ex' = [ex EXCEPT ![w].pc = "plocked", ![w].pts = t,
                                 ![w].lockP = TRUE,
                                 ![w].pnode = store[p].node,
                                 ![w].pchildren = store[p].children]
        ELSE \* sleep and retry: self._parent_timestamp is read again
             /\ UNCHANGED <<store, ex>>
  /\ UNCHANGED <<now, drift, users, req, counter, queue, applied>>

\* The request ends with reply r, or with an exception (r = "raised"). The
\* executor is dropped: what stays is the request, the reply, the counter
\* drawn, what the commits did, and the leases that were not released.
Return(e, r) ==
  [e EXCEPT !.pc = IF r = "raised" THEN "raised" ELSE "done", !.res = r,
            !.ts = IF e.lockT THEN e.ts ELSE 0,
            !.pts = IF e.lockP THEN e.pts ELSE 0,
            !.node = FALSE, !.nchildren = <<>>,
            !.pnode = FALSE, !.pchildren = <<>>]

\* A phase returns (False, {"reason": r}).
Fail(e, r) == Return(e, r)

\* increase_system_counter(0) increments the counter row atomically and
\* returns the new value
increase_system_counter(c) == c + 1

\* self._counter = increase_system_counter(0); if it is None the phase
\* returns (False, "unknown") at once
DrawCounter(w, next) ==
  \/ /\ counter' = increase_system_counter(counter)
     /\ ex' = [ex EXCEPT ![w].ctr = counter', ![w].pc = next]
  \/ /\ counter' = counter
     /\ ex' = [ex EXCEPT ![w] = Fail(@, "unknown")]

\* ---- CreateNodeExecutor

CreateLockTarget(w) == LockTarget(w, "create_node")

\* the check of the node read with the lock left out
CreateNodeExistsNever(node) == FALSE

\* "does the node exist?"
CreateNodeExists(node) == node

CreateRejectExists(w) ==
  /\ ex[w].pc = "locked"
  /\ ex[w].op = "create_node"
  /\ CreateNodeExists(ex[w].node)
  /\ store' = unlock_node(store, ex[w].path, ex[w].ts)
  /\ ex' = [ex EXCEPT ![w] = Fail([@ EXCEPT !.lockT = FALSE], "node_exists")]
  /\ UNCHANGED <<now, drift, users, req, counter, queue, applied>>

CreateLockParent(w) ==
  /\ ~CreateNodeExists(ex[w].node)
  /\ LockParent(w, "create_node")

\* "does the node does not exist?"
CreateParentMissing(pnode) == ~pnode

\* the parent check made after the counter was drawn
CreateRejectNoParentAfterCounter(w) ==
  /\ ex[w].pc = "plocked"
  /\ ex[w].op = "create_node"
  /\ CreateParentMissing(ex[w].pnode)
  /\ store' = unlock_node(unlock_node(store, Parent(ex[w].path), ex[w].pts),
                          ex[w].path, ex[w].ts)
  /\ counter' = increase_system_counter(counter)
  /\ ex' = [ex EXCEPT ![w] = Fail([@ EXCEPT !.lockT = FALSE, !.lockP = FALSE],
                                   "node_doesnt_exist")]
  /\ UNCHANGED <<now, drift, users, req, queue, applied>>

\* if self._parent_node is None: unlock both, return node_doesnt_exist
CreateRejectNoParent(w) ==
  /\ ex[w].pc = "plocked"
  /\ ex[w].op = "create_node"
  /\ CreateParentMissing(ex[w].pnode)
  /\ store' = unlock_node(unlock_node(store, Parent(ex[w].path), ex[w].pts),
                          ex[w].path, ex[w].ts)
  /\ ex' = [ex EXCEPT ![w] = Fail([@ EXCEPT !.lockT = FALSE, !.lockP = FALSE],
                                   "node_doesnt_exist")]
  /\ UNCHANGED <<now, drift, users, req, counter, queue, applied>>

CreateDrawCounter(w) ==
  /\ ex[w].pc = "plocked"
  /\ ex[w].op = "create_node"
  /\ ~CreateParentMissing(ex[w].pnode)
  /\ DrawCounter(w, "ctr")
  /\ UNCHANGED <<now, drift, users, req, store, queue, applied>>

\* self._parent_node.children.append(name); commit_node(parent, {CHILDREN});
\* the return value is not looked at
CreateCommitParent(w) ==
  /\ ex[w].pc = "ctr"
  /\ ex[w].op = "create_node"
  /\ LET p == Parent(ex[w].path)
         ch == Append(ex[w].pchildren, Name(ex[w].path))
     IN /\ store' = commit_children(store, p, ex[w].pts, ch)
        /\ ex' = [ex EXCEPT ![w].pc = "cp", ![w].pchildren = ch,
                            ![w].lockP = FALSE,
                            ![w].cp = IF CommitCondition(store, p, ex[w].pts)
                                      THEN "ok" ELSE "lost"]
  /\ UNCHANGED <<now, drift, users, req, counter, queue, applied>>

\* the version built from the lock timestamp instead of the counter
CreateVersionFromTimestamp(e) == e.ts

\* Version(self._counter, None) stamped into created and modified
CreateVersion(e) == e.ctr

\* commit_node(node, {CREATED, MODIFIED, CHILDREN}); return (True, {})
CreateCommitNode(w) ==
  /\ ex[w].pc = "cp"
  /\ ex[w].op = "create_node"
  /\ LET p == ex[w].path
         ok == CommitCondition(store, p, ex[w].ts)
     IN /\ store' = commit_created(store, p, ex[w].ts, CreateVersion(ex[w]))
        /\ ex' = [ex EXCEPT ![w].pc = "push", ![w].res = "ok",
                            ![w].lockT = FALSE,
                            ![w].cn = IF ok THEN "ok" ELSE "lost"]
        /\ applied' = IF ok THEN [applied EXCEPT ![p] = CreateVersion(ex[w])]
                      ELSE applied
  /\ UNCHANGED <<now, drift, users, req, counter, queue>>

\* the event pushed under the lock timestamp instead of the counter
PushedTimestamp(e) == e.ts

\* the counter an event is pushed under: self._counter
PushedCounter(e) == e.ctr

\* distributor_queue.push(counter, event, client)
Push(w, kind) ==
  /\ ex[w].pc = "push"
  /\ ex[w].op = kind
  /\ queue' = Append(queue, [counter |-> PushedCounter(ex[w]), kind |-> kind,
                             path |-> ex[w].path])
  /\ ex' = [ex EXCEPT ![w] = Return(@, "ok")]
  /\ UNCHANGED <<now, drift, users, req, store, counter, applied>>

CreatePush(w) == Push(w, "create_node")

\* ---- SetDataExecutor

SetLockTarget(w) == LockTarget(w, "set_data")

\* "does the node exist?"
SetNodeMissing(node) == ~node

SetRejectMissing(w) ==
  /\ ex[w].pc = "locked"
  /\ ex[w].op = "set_data"
  /\ SetNodeMissing(ex[w].node)
  /\ store' = unlock_node(store, ex[w].path, ex[w].ts)
  /\ ex' = [ex EXCEPT ![w] = Fail([@ EXCEPT !.lockT = FALSE],
                                   "node_doesnt_exist")]
  /\ UNCHANGED <<now, drift, users, req, counter, queue, applied>>

SetDrawCounter(w) ==
  /\ ex[w].pc = "locked"
  /\ ex[w].op = "set_data"
  /\ ~SetNodeMissing(ex[w].node)
  /\ DrawCounter(w, "ctr")
  /\ UNCHANGED <<now, drift, users, req, store, queue, applied>>

\* the version built from the lock timestamp instead of the counter
SetDataVersionFromTimestamp(e) == e.ts

\* self._system_node.modified = Version(self._counter, None)
SetDataVersion(e) == e.ctr

\* the commit made as for a new node: {CREATED, MODIFIED, CHILDREN}
SetCommitAsNewNode(w) ==
  /\ ex[w].pc = "ctr"
  /\ ex[w].op = "set_data"
  /\ LET p == ex[w].path
         ok == CommitCondition(store, p, ex[w].ts)
     IN /\ store' = commit_created(store, p, ex[w].ts, SetDataVersion(ex[w]))
        /\ applied' = IF ok THEN [applied EXCEPT ![p] = SetDataVersion(ex[w])]
                      ELSE applied
        /\ ex' = [ex EXCEPT ![w] =
                    IF ok
                    THEN [@ EXCEPT !.pc = "push", !.res = "ok",
                                   !.lockT = FALSE, !.cn = "ok"]
                    ELSE Fail([@ EXCEPT !.lockT = FALSE, !.cn = "lost"],
                              "unknown")]
  /\ UNCHANGED <<now, drift, users, req, counter, queue>>

\* commit_node(node, {MODIFIED}); a lost lease is reported as "unknown"
SetCommit(w) ==
  /\ ex[w].pc = "ctr"
  /\ ex[w].op = "set_data"
  /\ LET p == ex[w].path
         ok == CommitCondition(store, p, ex[w].ts)
     IN /\ store' = commit_modified(store, p, ex[w].ts, SetDataVersion(ex[w]))
        /\ applied' = IF ok THEN [applied EXCEPT ![p] = SetDataVersion(ex[w])]
                      ELSE applied
        /\ ex' = [ex EXCEPT ![w] =
                    IF ok
                    THEN [@ EXCEPT !.pc = "push", !.res = "ok",
                                   !.lockT = FALSE, !.cn = "ok"]
                    ELSE Fail([@ EXCEPT !.lockT = FALSE, !.cn = "lost"],
                              "unknown")]
  /\ UNCHANGED <<now, drift, users, req, counter, queue>>

SetPush(w) == Push(w, "set_data")

\* ---- DeleteNodeExecutor

DeleteLockTarget(w) == LockTarget(w, "delete_node")

\* "does the node not exist?"
DeleteNodeMissing(node) == ~node

DeleteRejectMissing(w) ==
  /\ ex[w].pc = "locked"
  /\ ex[w].op = "delete_node"
  /\ DeleteNodeMissing(ex[w].node)
  /\ store' = unlock_node(store, ex[w].path, ex[w].ts)
  /\ ex' = [ex EXCEPT ![w] = Fail([@ EXCEPT !.lockT = FALSE],
                                   "node_doesnt_exist")]
  /\ UNCHANGED <<now, drift, users, req, counter, queue, applied>>

\* if len(self._node.children)
DeleteNotEmpty(children) == Len(children) > 0

DeleteRejectNotEmpty(w) ==
  /\ ex[w].pc = "locked"
  /\ ex[w].op = "delete_node"
  /\ ~DeleteNodeMissing(ex[w].node)
  /\ DeleteNotEmpty(ex[w].nchildren)
  /\ store' = unlock_node(store, ex[w].path, ex[w].ts)
  /\ ex' = [ex EXCEPT ![w] = Fail([@ EXCEPT !.lockT = FALSE], "not_empty")]
  /\ UNCHANGED <<now, drift, users, req, counter, queue, applied>>

DeleteLockParent(w) ==
  /\ ~DeleteNodeMissing(ex[w].node)
  /\ ~DeleteNotEmpty(ex[w].nchildren)
  /\ LockParent(w, "delete_node")

\* assert self._parent_node at the end of lock_and_read (AssertionError when
\* the parent row holds no node), then increase_system_counter
DeleteDrawCounter(w) ==
  /\ ex[w].pc = "plocked"
  /\ ex[w].op = "delete_node"
  /\ IF ~ex[w].pnode
     THEN /\ ex' = [ex EXCEPT ![w] = Return(@, "raised")]
          /\ counter' = counter
     ELSE DrawCounter(w, "ctr")
  /\ UNCHANGED <<now, drift, users, req, store, queue, applied>>

\* self._parent_node.children.remove(name) raises ValueError when the name
\* is not in the list
DeleteRemoveRaises(children, name) == ~InSeq(children, name)

DeleteRaise(w) ==
  /\ ex[w].pc = "ctr"
  /\ ex[w].op = "delete_node"
  /\ DeleteRemoveRaises(ex[w].pchildren, Name(ex[w].path))
  /\ ex' = [ex EXCEPT ![w] = Return(@, "raised")]
  /\ UNCHANGED <<now, drift, users, req, store, counter, queue, applied>>

\* children.remove(name); commit_node(parent, {CHILDREN}); the return value
\* is not looked at
DeleteCommitParent(w) ==
  /\ ex[w].pc = "ctr"
  /\ ex[w].op = "delete_node"
  /\ ~DeleteRemoveRaises(ex[w].pchildren, Name(ex[w].path))
  /\ LET p == Parent(ex[w].path)
         ch == Remove(ex[w].pchildren, Name(ex[w].path))
     IN /\ store' = commit_children(store, p, ex[w].pts, ch)
        /\ ex' = [ex EXCEPT ![w].pc = "cp", ![w].pchildren = ch,
                            ![w].lockP = FALSE,
                            ![w].cp = IF CommitCondition(store, p, ex[w].pts)
                                      THEN "ok" ELSE "lost"]
  /\ UNCHANGED <<now, drift, users, req, counter, queue, applied>>

\* delete_node(node, timestamp); return (True, {})
DeleteCommitNode(w) ==
  /\ ex[w].pc = "cp"
  /\ ex[w].op = "delete_node"
  /\ LET p == ex[w].path
         ok == CommitCondition(store, p, ex[w].ts)
     IN /\ store' = delete_node(store, p, ex[w].ts)
        /\ ex' = [ex EXCEPT ![w].pc = "push", ![w].res = "ok",
                            ![w].lockT = FALSE,
                            ![w].cn = IF ok THEN "ok" ELSE "lost"]
        /\ applied' = IF ok THEN [applied EXCEPT ![p] = ex[w].ctr]
                      ELSE applied
  /\ UNCHANGED <<now, drift, users, req, counter, queue>>

DeletePush(w) == Push(w, "delete_node")

\* ---- builder

\* ops: operation name -> (request type, executor type)
ops == [o \in Operations \cup {"deregister_session"} |->
          CASE o = "create_node" -> "CreateNodeExecutor"
            [] o = "set_data" -> "SetDataExecutor"
            [] o = "delete_node" -> "DeleteNodeExecutor"
            [] o = "deregister_session" -> "DeregisterSessionExecutor"]

\* operation_type.deserialize(event): FALSE stands for None, returned when a
\* field the request type needs is missing
deserialize(operation, event) ==
  IF operation = "deregister_session"
  THEN event.session_id # NoField
  ELSE event.path # NoField

\* the error path of builder: the log line reads event["timestamp"], which
\* raises KeyError when the event has no such key
IncorrectRequest(event) ==
  IF event.timestamp
  THEN [executor |-> "None", reply |-> "incorrect_request"]
  ELSE [executor |-> "None", reply |-> "KeyError"]

\* builder(operation, event_id, event)
builder(operation, event) ==
  IF operation \notin DOMAIN ops
  THEN IncorrectRequest(event)
  ELSE IF ~deserialize(operation, event)
  THEN IncorrectRequest(event)
  ELSE [executor |-> ops[operation], reply |-> "empty"]

\* Worker w receives an event and calls builder; with an executor built, the
\* caller enters lock_and_read.
Build(w, operation, event) ==
  /\ req[w] = NoRequest
  /\ ex[w].pc = "idle"
  /\ LET r == builder(operation, event)
     IN /\ req' = [req EXCEPT ![w] = [operation |-> operation, event |-> event,
                                      executor |-> r.executor,
                                      reply |-> r.reply]]
        /\ ex' = IF r.executor = "None"
                 THEN ex
                 ELSE [ex EXCEPT ![w] =
                         [IdleExecutor EXCEPT
                            !.pc = "lock", !.op = operation,
                            !.path = IF event.path = NoField
                                     THEN "/" ELSE event.path]]
  /\ UNCHANGED <<now, drift, store, counter, queue, applied, users>>

\* ---- DeregisterSessionExecutor

\* self.op.session_id
SessionId(w) == req[w].event.session_id

\* lock_and_read: return (True, {})
DeregisterLockAndRead(w) ==
  /\ ex[w].pc = "lock"
  /\ ex[w].op = "deregister_session"
  /\ ex' = [ex EXCEPT ![w].pc = "locked"]
  /\ UNCHANGED <<now, drift, store, counter, queue, applied, users, req>>

\* the users table driver's delete(key): removes the row, tells whether
\* there was one
users_storage_delete(us, sid) == [table |-> us \ {sid}, found |-> sid \in us]

\* delete_user(session_id)
delete_user(us, sid) == users_storage_delete(us, sid)

\* commit_and_unlock with the result of delete_user not looked at
DeregisterCommitUnchecked(w) ==
  /\ ex[w].pc = "locked"
  /\ ex[w].op = "deregister_session"
  /\ users' = delete_user(users, SessionId(w)).table
  /\ ex' = [ex EXCEPT ![w].pc = "push", ![w].res = "success"]
  /\ UNCHANGED <<now, drift, store, counter, queue, applied, req>>

\* commit_and_unlock: success when delete_user removed the session,
\* session_does_not_exist otherwise
DeregisterCommit(w) ==
  /\ ex[w].pc = "locked"
  /\ ex[w].op = "deregister_session"
  /\ LET r == delete_user(users, SessionId(w))
     IN /\ users' = r.table
        /\ ex' = [ex EXCEPT ![w] =
                    IF r.found
                    THEN [@ EXCEPT !.pc = "push", !.res = "success"]
                    ELSE Fail(@, "session_does_not_exist")]
  /\ UNCHANGED <<now, drift, store, counter, queue, applied, req>>

\* distributor_push: pass
DeregisterPush(w) ==
  /\ ex[w].pc = "push"
  /\ ex[w].op = "deregister_session"
  /\ ex' = [ex EXCEPT ![w] = Return(@, ex[w].res)]
  /\ UNCHANGED <<now, drift, store, counter, queue, applied, users, req>>

\* ------------------------------------------------------ specification

Next ==
  \/ Tick
  \/ \E w \in Workers, o \in Operations, p \in Paths : Start(w, o, p)
  \/ \E w \in Workers : CreateLockTarget(w)
  \/ \E w \in Workers : CreateRejectExists(w)
  \/ \E w \in Workers : CreateLockParent(w)
  \/ \E w \in Workers : CreateRejectNoParent(w)
  \/ \E w \in Workers : CreateDrawCounter(w)
  \/ \E w \in Workers : CreateCommitParent(w)
  \/ \E w \in Workers : CreateCommitNode(w)
  \/ \E w \in Workers : CreatePush(w)
  \/ \E w \in Workers : SetLockTarget(w)
  \/ \E w \in Workers : SetRejectMissing(w)
  \/ \E w \in Workers : SetDrawCounter(w)
  \/ \E w \in Workers : SetCommit(w)
  \/ \E w \in Workers : SetPush(w)
  \/ \E w \in Workers : DeleteLockTarget(w)
  \/ \E w \in Workers : DeleteRejectMissing(w)
  \/ \E w \in Workers : DeleteRejectNotEmpty(w)
  \/ \E w \in Workers : DeleteLockParent(w)
  \/ \E w \in Workers : DeleteDrawCounter(w)
  \/ \E w \in Workers : DeleteRaise(w)
  \/ \E w \in Workers : DeleteCommitParent(w)
  \/ \E w \in Workers : DeleteCommitNode(w)
  \/ \E w \in Workers : DeletePush(w)

Spec == Init /\ [][Next]_vars

\* The system on a new store, or on the store that an earlier pair of
\* requests left as OrphanTree.
OrphanInit ==
  /\ now = 1
  /\ drift \in {d \in [Workers -> 0..MaxDrift] : d[1] = 0}
  /\ \/ store = InitialTree(0) /\ counter = 0 /\ applied = [p \in Paths |-> 0]
     \/ store = OrphanTree /\ counter = 3 /\ applied = OrphanApplied
  /\ queue = <<>>
  /\ ex = [w \in Workers |-> IdleExecutor]
  /\ users = Sessions
  /\ req = [w \in Workers |-> NoRequest]

OrphanSpec == OrphanInit /\ [][Next]_vars

\* Events of any kind arrive on a store with any set of sessions.
DispatchInit ==
  /\ now = 1
  /\ drift = [w \in Workers |-> 0]
  /\ store = InitialTree(0)
  /\ counter = 0
  /\ applied = [p \in Paths |-> 0]
  /\ queue = <<>>
  /\ ex = [w \in Workers |-> IdleExecutor]
  /\ users \in SUBSET Sessions
  /\ req = [w \in Workers |-> NoRequest]

\* builder on every kind of event, and the executor of deregister_session
DispatchNext ==
  \/ \E w \in Workers, o \in OperationNames, e \in Events : Build(w, o, e)
  \/ \E w \in Workers : DeregisterLockAndRead(w)
  \/ \E w \in Workers : DeregisterCommit(w)
  \/ \E w \in Workers : DeregisterPush(w)

DispatchSpec == DispatchInit /\ [][DispatchNext]_vars

\* One iteration of a lock loop of worker w that takes the lease.
LockStep(w) ==
  \/ CreateLockTarget(w)
  \/ SetLockTarget(w)
  \/ DeleteLockTarget(w)
  \/ CreateLockParent(w)
  \/ DeleteLockParent(w)

\* The store after create_node /a, with the second worker's clock ahead.
LiveInit ==
  /\ Init
  /\ store = InitialTree(1)
  /\ drift[2] = MaxDrift

\* Time advances and every "while True" lock loop keeps retrying; between a
\* lock and the next storage call a worker may stop for good (a crash: it
\* keeps the leases it took).
LiveSpec ==
  /\ LiveInit
  /\ [][Next]_vars
  /\ WF_vars(Tick)
  /\ \A w \in Workers : WF_vars(LockStep(w))

\* ------------------------------------------------------------ claims

Quiescent == \A w \in Workers : ex[w].pc \in {"idle", "done", "raised"}

\* Worker w took the lease on p at timestamp t and has not given it back.
Acquired(w, p, t) ==
  \/ ex[w].lockT /\ ex[w].path = p /\ ex[w].ts = t
  \/ ex[w].lockP /\ Parent(ex[w].path) = p /\ ex[w].pts = t

\* The lease has not run out yet: some clock of the system still reads less
\* than t + lock_lifetime.
Live(t) == \E v \in Workers : Clock(v) < t + lock_lifetime

HoldsLease(w, p) == \E t \in 1..(MaxTime + MaxDrift) : Acquired(w, p, t) /\ Live(t)

\* C1: at any moment at most one worker holds the lease on a path (from its
\* successful lock_node until it gives the lease back or the lease runs out),
\* with clocks at most MaxDrift apart; and the timelock of a path whose lease
\* is held is the holder's timestamp: lock_node never replaced a live lease.
C1_MutualExclusion ==
  \A p \in Paths : \A w \in Workers :
    HoldsLease(w, p) =>
      /\ \A v \in Workers \ {w} : ~HoldsLease(v, p)
      /\ Acquired(w, p, store[p].timelock)

\* C1 witness: worker v took over the lease on p that worker w had acquired
\* and let run out.
C1_Witness ==
  \E p \in Paths : \E w \in Workers : \E v \in Workers \ {w} :
    /\ ex[w].lockT /\ ex[w].path = p /\ ~HoldsLease(w, p)
    /\ HoldsLease(v, p)
    /\ store[p].timelock > ex[w].ts

\* A request of worker w for operation o on path p
Runs(w, o, p) == ex[w].pc # "idle" /\ ex[w].op = o /\ ex[w].path = p

\* commit_and_unlock of worker w returned (True, {})
Succeeded(w) == ex[w].pc \in {"push", "done"} /\ ex[w].res = "ok"

\* a phase of worker w returned (False, reply)
Failed(w) == ex[w].pc = "done" /\ ex[w].res # "ok"

\* C2: whenever no request is in the middle of a phase, every committed
\* non-root node has a committed parent whose children list holds its name.
C2_ParentChild ==
  Quiescent =>
    \A p \in Paths \ {"/"} :
      store[p].node =>
        /\ store[Parent(p)].node
        /\ InSeq(store[Parent(p)].children, Name(p))

\* C3: whenever no request is in the middle of a phase, a name is in a
\* parent's children list exactly when the child's node row exists.
C3_ChildrenExact ==
  Quiescent =>
    \A p \in Paths \ {"/"} :
      InSeq(store[Parent(p)].children, Name(p)) <=> store[p].node

\* C4: of two workers running create_node on the same path, never both
\* return success from commit_and_unlock.
C4_OneCreateSucceeds ==
  \A w \in Workers : \A v \in Workers \ {w} : \A p \in Paths :
    (Runs(w, "create_node", p) /\ Runs(v, "create_node", p)) =>
      ~(Succeeded(w) /\ Succeeded(v))

\* C5: a worker whose lease was taken over before it committed (a commit of
\* its own found the timelock changed) gets (False, "unknown") from
\* commit_and_unlock.
C5_LostLeaseFails ==
  \A w \in Workers :
    (ex[w].cp = "lost" \/ ex[w].cn = "lost") =>
      (ex[w].pc \in {"push", "done"} => ex[w].res = "unknown")

\* C6: once a phase returned ok=false, no timelock is still the timestamp of
\* a lease that operation acquired.
C6_NoLeaseAfterFailure ==
  \A w \in Workers :
    Failed(w) =>
      /\ ~(ex[w].lockT /\ store[ex[w].path].timelock = ex[w].ts)
      /\ ~(ex[w].lockP /\ store[Parent(ex[w].path)].timelock = ex[w].pts)

Drawn == {ex[w].ctr : w \in Workers} \ {NoCounter}

\* C8: a counter drawn is greater than every counter drawn before, no two
\* executors carry the same counter, and the events in the distributor queue
\* carry pairwise different counters, each the one its executor drew.
C8_CounterMonotonic ==
  /\ [][\A w \in Workers :
          ex'[w].ctr # ex[w].ctr =>
            /\ ex'[w].ctr > counter
            /\ \A v \in Workers : ex'[w].ctr > ex[v].ctr
            /\ \A i \in 1..Len(queue) : ex'[w].ctr > queue[i].counter]_vars
  /\ [](\A w \in Workers : \A v \in Workers \ {w} :
          ex[w].ctr # NoCounter => ex[w].ctr # ex[v].ctr)
  /\ [](\A i \in 1..Len(queue) :
          /\ queue[i].counter \in Drawn
          /\ \A j \in 1..Len(queue) :
               i # j => queue[i].counter # queue[j].counter)

\* C8 witness: both workers pushed an event.
C8_Witness == Len(queue) = 2

\* C9: delete_node "/" never removes the root, never returns ok=true, and
\* ends in a failure reply: not_empty when the root has children.
C9_RootDeleteFails ==
  /\ store["/"].node
  /\ \A w \in Workers :
       Runs(w, "delete_node", "/") =>
         /\ ~Succeeded(w)
         /\ ex[w].pc # "raised"
         /\ (ex[w].pc = "done" /\ ex[w].nchildren # <<>>) =>
              ex[w].res = "not_empty"

C11_PhasesNeverRaise ==
  \A w \in Workers : ex[w].pc # "raised"

\* Worker w is in the loop that locks its target path.
InTargetLoop(w) == ex[w].pc = "lock"

\* Worker w is in the loop of create_node or delete_node that locks the
\* parent of its target path.
InParentLoop(w) ==
  /\ ex[w].pc = "locked"
  /\ \/ ex[w].op = "create_node" /\ ~ex[w].node
     \/ ex[w].op = "delete_node" /\ ex[w].node /\ ex[w].nchildren = <<>>

\* The clocks have reached MaxTime while the lease on p, as worker w's clock
\* reads it, has not run out.
HorizonReached(w, p) ==
  /\ now = MaxTime
  /\ store[p].timelock # NoLock
  /\ store[p].timelock >= Clock(w) - lock_lifetime

OrphanTreeReached ==
  /\ Quiescent
  /\ store = OrphanTree
  /\ counter = 3
  /\ applied = OrphanApplied

\* A phase has returned (False, {"reason": r}).
Returned(f, r) == f.pc = "done" /\ f.res = r

\* lock_and_read has returned (True, {}): commit_and_unlock has been entered
\* and has called increase_system_counter.
Phase1Ok(f) == f.pc = "ctr" \/ Returned(f, "unknown")

\* After the step the operation has called unlock_node on its target lease:
\* the timelock of the target is not its timestamp.
TargetUnlocked(e, f) ==
  /\ ~f.lockT
  /\ store'[e.path].timelock # e.ts

\* The same for the lease on the parent.
ParentUnlocked(e, f) ==
  /\ ~f.lockP
  /\ store'[Parent(e.path)].timelock # e.pts

\* What lock_and_read of executor e does after it has locked the target, as
\* the node read with the lock decides; f is the executor after the step.
Phase1AfterTarget(e, f) ==
  CASE e.op = "create_node" ->
         IF e.node
         THEN Returned(f, "node_exists") /\ TargetUnlocked(e, f)
         ELSE f.pc \in {"locked", "plocked"}
    [] e.op = "set_data" ->
         IF ~e.node
         THEN Returned(f, "node_doesnt_exist") /\ TargetUnlocked(e, f)
         ELSE Phase1Ok(f)
    [] e.op = "delete_node" ->
         IF ~e.node
         THEN Returned(f, "node_doesnt_exist") /\ TargetUnlocked(e, f)
         ELSE IF e.nchildren # <<>>
         THEN Returned(f, "not_empty") /\ TargetUnlocked(e, f)
         ELSE f.pc \in {"locked", "plocked"}

\* What lock_and_read does after it has locked the parent.
Phase1AfterParent(e, f) ==
  CASE e.op = "create_node" ->
         IF ~e.pnode
         THEN /\ Returned(f, "node_doesnt_exist")
              /\ TargetUnlocked(e, f)
              /\ ParentUnlocked(e, f)
         ELSE Phase1Ok(f)
    [] e.op = "delete_node" -> Phase1Ok(f)
    [] OTHER -> FALSE

\* C13: lock_and_read classifies on the nodes read with the locks.
\* create_node: node_exists iff the node is present, else node_doesnt_exist
\* iff the parent node is absent, else ok. set_data: node_doesnt_exist iff the
\* node is absent, else ok. delete_node: node_doesnt_exist iff the node is
\* absent, else not_empty iff it has children, else ok. In each failing case
\* the leases taken were unlocked before the return.
C13_Phase1Classification ==
  [][\A w \in Workers :
       ex'[w] # ex[w] =>
         /\ ex[w].pc = "locked" => Phase1AfterTarget(ex[w], ex'[w])
         /\ ex[w].pc = "plocked" => Phase1AfterParent(ex[w], ex'[w])]_vars

\* lock_and_read of worker w returned ok=false.
Phase1Failed(e) ==
  e.pc = "done" /\ e.res \in {"node_exists", "node_doesnt_exist", "not_empty"}

\* The step changed no attribute of any row but timelock.
SameNodes ==
  \A p \in Paths :
    [store'[p] EXCEPT !.timelock = NoLock] = [store[p] EXCEPT !.timelock = NoLock]

\* C14: an operation whose lock_and_read returns ok=false has drawn no counter
\* and made no commit, and none of the steps of lock_and_read (taking a lease,
\* rejecting and unlocking) changes the system counter, a node attribute of
\* any row, or the distributor queue.
C14_FailedPhase1NoEffect ==
  /\ [](\A w \in Workers :
          Phase1Failed(ex[w]) =>
            ex[w].ctr = NoCounter /\ ex[w].cp = "none" /\ ex[w].cn = "none")
  /\ [][\A w \in Workers :
          (/\ ex'[w] # ex[w]
           /\ \/ ex'[w].pc \in {"locked", "plocked"}
              \/ Phase1Failed(ex'[w]))
          => (counter' = counter /\ SameNodes /\ queue' = queue)]_vars

\* C14 witness: a create_node under a missing parent was rejected after it
\* had taken both leases, while the other worker's request drew a counter.
C14_Witness ==
  \E w \in Workers : \E v \in Workers \ {w} :
    /\ ex[w].op = "create_node"
    /\ Returned(ex[w], "node_doesnt_exist")
    /\ ex[v].ctr # NoCounter

\* Worker w makes the step in which commit_node of its set_data is called.
SetCommitStep(w) ==
  /\ ex[w].op = "set_data"
  /\ ex[w].pc = "ctr"
  /\ ex'[w] # ex[w]

\* C15: the commit of set_data on P writes modified only: when it succeeds,
\* P.modified becomes the operation's counter and P.created and P.children
\* stay what storage held (also after another worker's create_node or
\* delete_node of a child of P changed P.children); when it fails nothing is
\* written; no other row is changed.
C15_SetDataWritesModifiedOnly ==
  [][\A w \in Workers :
       SetCommitStep(w) =>
         LET p == ex[w].path IN
           /\ \A q \in Paths \ {p} : store'[q] = store[q]
           /\ store'[p].node = store[p].node
           /\ store'[p].created = store[p].created
           /\ store'[p].children = store[p].children
           /\ store'[p].modified =
                IF ex'[w].res = "ok" THEN ex[w].ctr ELSE store[p].modified]_vars

\* C15 witness: a set_data on P was committed, and the other worker's
\* create_node of a child of P has put the child's name into P.children.
C15_Witness ==
  \E w \in Workers : \E v \in Workers \ {w} :
    /\ ex[w].op = "set_data" /\ Succeeded(w)
    /\ ex[v].op = "create_node" /\ ex[v].path # "/"
    /\ Parent(ex[v].path) = ex[w].path
    /\ ex[v].cp = "ok"
    /\ InSeq(store[ex[w].path].children, Name(ex[v].path))
    /\ store[ex[w].path].modified = ex[w].ctr

\* created.systemCounter <= modified.systemCounter for every committed node
VersionOrder ==
  \A p \in Paths : store[p].node => store[p].created <= store[p].modified

\* created does not change while the node exists
CreatedFrozen ==
  \A p \in Paths :
    (store[p].node /\ store'[p].node) => store'[p].created = store[p].created

\* modified of an existing node is changed by the commit of a set_data only
ModifiedBySetDataOnly ==
  \A p \in Paths :
    (store[p].node /\ store'[p].node /\ store'[p].modified # store[p].modified)
      => \E w \in Workers : SetCommitStep(w) /\ ex[w].path = p

\* when the node commit of a create_node is applied, the node is stored with
\* created = modified = the operation's counter
CreatedAtCounter ==
  \A w \in Workers :
    (/\ ex[w].op = "create_node" /\ ex[w].pc = "cp"
     /\ ex'[w].pc = "push" /\ ex'[w].cn = "ok") =>
      /\ store'[ex[w].path].node
      /\ store'[ex[w].path].created = ex[w].ctr
      /\ store'[ex[w].path].modified = ex[w].ctr

C17_BuilderDispatch ==
  \A w \in Workers :
    req[w] # NoRequest =>
      IF \/ req[w].operation \notin {"create_node", "set_data", "delete_node",
                                     "deregister_session"}
         \/ ~deserialize(req[w].operation, req[w].event)
      THEN req[w].executor = "None" /\ req[w].reply = "incorrect_request"
      ELSE /\ req[w].reply = "empty"
           /\ req[w].executor =
                CASE req[w].operation = "create_node" -> "CreateNodeExecutor"
                  [] req[w].operation = "set_data" -> "SetDataExecutor"
                  [] req[w].operation = "delete_node" -> "DeleteNodeExecutor"
                  [] req[w].operation = "deregister_session" ->
                       "DeregisterSessionExecutor"

\* The same for events that carry a timestamp.
BuilderDispatchWithTimestamp ==
  \A w \in Workers :
    (req[w] # NoRequest /\ req[w].event.timestamp) =>
      /\ req[w].reply \in {"incorrect_request", "empty"}
      /\ req[w].reply = "empty" <=>
           /\ req[w].operation \in DOMAIN ops
           /\ deserialize(req[w].operation, req[w].event)
      /\ req[w].executor =
           IF req[w].reply = "empty" THEN ops[req[w].operation] ELSE "None"

\* Worker w runs a phase of DeregisterSessionExecutor in this step.
DeregisterStep(w) ==
  ex[w].op = "deregister_session" /\ ex[w].pc # "idle" /\ ex'[w] # ex[w]

\* C18: lock_and_read of deregister_session always returns (True, {}) and,
\* like distributor_push, changes no state; commit_and_unlock removes a
\* session that is in the users table and returns success, and for a session
\* that is not there (a second deregistration) returns
\* session_does_not_exist and leaves the table as it is; no phase touches a
\* lease, a node row, the system counter or the distributor queue.
C18_SessionDeregistration ==
  [][\A w \in Workers :
       DeregisterStep(w) =>
         /\ UNCHANGED <<store, counter, queue, applied>>
         /\ ex[w].pc = "lock" => (ex'[w].pc = "locked" /\ users' = users)
         /\ ex[w].pc = "push" => (Returned(ex'[w], "success") /\ users' = users)
         /\ ex[w].pc = "locked" =>
              IF SessionId(w) \in users
              THEN /\ users' = users \ {SessionId(w)}
                   /\ ex'[w].pc = "push" /\ ex'[w].res = "success"
              ELSE /\ users' = users
                   /\ Returned(ex'[w], "session_does_not_exist")]_vars

\* C18 witness: two deregistrations of the same session: the first removed
\* it, the second was answered session_does_not_exist.
C18_Witness ==
  \E w \in Workers : \E v \in Workers \ {w} :
    /\ ex[w].op = "deregister_session" /\ Returned(ex[w], "success")
    /\ ex[v].op = "deregister_session"
    /\ Returned(ex[v], "session_does_not_exist")
    /\ SessionId(w) = SessionId(v)
    /\ SessionId(w) \notin users

\* C19: no children list holds the same name twice.
C19_ChildrenAreSets ==
  \A p \in Paths :
    \A i \in 1..Len(store[p].children) : \A j \in 1..Len(store[p].children) :
      i # j => store[p].children[i] # store[p].children[j]

\* C20: an executor whose commit_and_unlock returned ok=true and that pushed
\* its event had its mutation applied in full: create_node and delete_node
\* both the commit of the parent's children and the write (or removal) of the
\* node row, set_data its commit.
C20_PushedEventsDurable ==
  \A i \in 1..Len(queue) :
    \A w \in Workers :
      (ex[w].ctr = queue[i].counter /\ ex[w].pc = "done" /\ ex[w].res = "ok") =>
        /\ ex[w].cn = "ok"
        /\ ex[w].op \in {"create_node", "delete_node"} => ex[w].cp = "ok"

\* C21: when lock_and_read of create_node or delete_node returns ok=true (it
\* has just locked the parent and read a parent node), the timelock of the
\* target still is the operation's target timestamp and the timelock of the
\* parent is its parent timestamp, however long the parent loop has waited.
C21_BothLeasesLive ==
  [][\A w \in Workers :
       (ex[w].pc = "locked" /\ ex'[w].pc = "plocked" /\ ex'[w].pnode) =>
         /\ store'[ex[w].path].timelock = ex[w].ts
         /\ store'[Parent(ex[w].path)].timelock = ex'[w].pts]_vars

====
